---- MODULE Spec2Model ----
(***************************************************************************)
(* A model of the "AI Power" backend (src/main.py): three POST handlers    *)
(* that validate a prompt and assemble a text, an SVG data URL or a        *)
(* podcast script from fixed templates.                                    *)
(*                                                                         *)
(* A Python str is modelled as a sequence of Unicode code points (Python's *)
(* len, indexing and slicing count code points), a bytes object as a       *)
(* sequence of integers 0..255.  The literals of the source are written as *)
(* TLA+ strings and converted with Codes; characters a TLA+ string cannot  *)
(* hold (non-ASCII ones) are spliced in as code points.                    *)
(*                                                                         *)
(* Prompts reaching a handler are values of the request model's field      *)
(* `prompt: str` (src/main.py:19-20): strings of Unicode scalar values.    *)
(***************************************************************************)
EXTENDS Integers, Sequences, FiniteSets, TLC

(***************************************************************************)
(* Representation of string literals                                       *)
(***************************************************************************)
\* Code points 32..95 and 97..126 in order (96, the backtick, is not used by the source).
AsciiLo == " !\"#$%&'()*+,-./0123456789:;<=>?@ABCDEFGHIJKLMNOPQRSTUVWXYZ[\\]^_"
AsciiHi == "abcdefghijklmnopqrstuvwxyz{|}~"

Ord(c) ==
    IF c = "\n" THEN 10
    ELSE IF c = "\t" THEN 9
    ELSE IF \E i \in 1..Len(AsciiLo) : SubSeq(AsciiLo, i, i) = c
         THEN 31 + (CHOOSE i \in 1..Len(AsciiLo) : SubSeq(AsciiLo, i, i) = c)
         ELSE 96 + (CHOOSE i \in 1..Len(AsciiHi) : SubSeq(AsciiHi, i, i) = c)

Codes(s) == [i \in 1..Len(s) |-> Ord(SubSeq(s, i, i))]

Min(S) == CHOOSE x \in S : \A y \in S : x <= y
Max(S) == CHOOSE x \in S : \A y \in S : y <= x

\* Concatenation of parts[lo..hi], by halves (the result is that of a left-to-right fold).
RECURSIVE ConcatRange(_, _, _)
ConcatRange(parts, lo, hi) ==
    IF lo > hi THEN <<>>
    ELSE IF lo = hi THEN parts[lo]
    ELSE LET mid == (lo + hi) \div 2
         IN  ConcatRange(parts, lo, mid) \o ConcatRange(parts, mid + 1, hi)

Concat(parts) == ConcatRange(parts, 1, Len(parts))

(***************************************************************************)
(* The Python built-ins and library functions the handlers call            *)
(***************************************************************************)
\* str.isspace() of one character: the code points str.strip() and str.split() treat as whitespace.
IsSpace(c) ==
    c \in ({9, 10, 11, 12, 13, 28, 29, 30, 31, 32, 133, 160, 5760}
            \cup (8192..8202) \cup {8232, 8233, 8239, 8287, 12288})

\* A plausible slip: strip(" "), which removes spaces only.
Strip_SpacesOnly(s) ==
    LET keep == {i \in 1..Len(s) : s[i] # 32}
    IN  IF keep = {} THEN <<>> ELSE SubSeq(s, Min(keep), Max(keep))

\* A plausible slip: lstrip(), which leaves trailing whitespace.
Strip_LeftOnly(s) ==
    LET keep == {i \in 1..Len(s) : ~IsSpace(s[i])}
    IN  IF keep = {} THEN <<>> ELSE SubSeq(s, Min(keep), Len(s))

\* req.prompt.strip() (lines 68, 138, 149): the string without its leading and trailing
\* whitespace.
Strip(s) ==
    LET keep == {i \in 1..Len(s) : ~IsSpace(s[i])}
    IN  IF keep = {} THEN <<>> ELSE SubSeq(s, Min(keep), Max(keep))

\* str.lower() of one character, as a string: ASCII and Latin-1 capitals move by 32; the
\* capitals whose lower case is another length or block are listed; other characters of the
\* modelled alphabet have no lower case.
LowerChar(c) ==
    IF c \in 65..90 THEN <<c + 32>>
    ELSE IF c \in (192..222) \ {215} THEN <<c + 32>>
    ELSE IF c = 304 THEN <<105, 775>>
    ELSE IF c = 8490 THEN <<107>>
    ELSE IF c = 8491 THEN <<229>>
    ELSE <<c>>

\* A plausible slip: comparing without lower().
Lower_Identity(s) == s

\* str.lower().
Lower(s) == Concat([i \in 1..Len(s) |-> LowerChar(s[i])])

\* sep.join(parts).
Join(sep, parts) ==
    Concat([i \in 1..(2 * Len(parts) - 1) |->
               IF (i % 2) = 1 THEN parts[(i + 1) \div 2] ELSE sep])

\* len(s.split()): the number of maximal runs of non-whitespace characters.
WordCount(s) ==
    LET WordStarts(t) == {i \in 1..Len(t) : ~IsSpace(t[i]) /\ (i = 1 \/ IsSpace(t[i - 1]))}
    IN  Cardinality(UNION {WordStarts(t) : t \in {s}})

\* s.split(): the maximal runs of non-whitespace characters, in order.
RECURSIVE SplitFrom(_, _)
SplitFrom(s, from) ==
    LET starts == {i \in from..Len(s) : ~IsSpace(s[i])}
    IN  IF starts = {} THEN <<>>
        ELSE LET b == Min(starts)
                 stops == {i \in b..Len(s) : IsSpace(s[i])}
                 e == IF stops = {} THEN Len(s) ELSE Min(stops) - 1
             IN  <<SubSeq(s, b, e)>> \o SplitFrom(s, e + 1)

Split(s) == SplitFrom(s, 1)

\* textwrap.fill(text, width): the words of the text, greedily packed into lines of at
\* most `width` characters joined by newlines.  (A word is never longer than the width
\* here, and a line is broken inside a hyphenated word only when it overflows.)
RECURSIVE FillLines(_, _, _)
FillLines(words, cur, width) ==
    IF words = <<>> THEN (IF cur = <<>> THEN <<>> ELSE <<cur>>)
    ELSE LET w == Head(words)
         IN  IF cur = <<>> THEN FillLines(Tail(words), w, width)
             ELSE IF Len(cur) + 1 + Len(w) <= width
                  THEN FillLines(Tail(words), cur \o <<32>> \o w, width)
                  ELSE <<cur>> \o FillLines(Tail(words), w, width)

Fill(text, width) == Join(<<10>>, FillLines(Split(text), <<>>, width))

\* str(n) of a natural number.
RECURSIVE Str(_)
Str(n) == IF n < 10 THEN <<48 + n>> ELSE Str(n \div 10) \o <<48 + (n % 10)>>

\* The formatted float whose value is x100 / 100 (repr: at least one fractional digit,
\* no trailing zero).
FloatStr(x100) ==
    LET frac == x100 % 100
    IN  Str(x100 \div 100) \o <<46>>
        \o (IF (frac % 10) = 0 THEN <<48 + (frac \div 10)>>
            ELSE <<48 + (frac \div 10), 48 + (frac % 10)>>)

\* str.format(**args): every {name} of the template replaced by the argument of that
\* name (the template uses neither {{ }} escapes nor format specifications).
Format(t, args) ==
    LET opens == {i \in 1..Len(t) : t[i] = 123}
        closes == {i \in 1..Len(t) : t[i] = 125}
        n == Cardinality(opens)
        \* the k-th { and the k-th } of the template
        open(k) == CHOOSE o \in opens : Cardinality({x \in opens : x < o}) = k - 1
        close(k) == CHOOSE c \in closes : Cardinality({x \in closes : x < c}) = k - 1
        field(k) == LET name == SubSeq(t, open(k) + 1, close(k) - 1)
                    IN  (CHOOSE a \in args : a.name = name).value
        text(k) == SubSeq(t, IF k = 0 THEN 1 ELSE close(k) + 1,
                             IF k = n THEN Len(t) ELSE open(k + 1) - 1)
    IN  Concat([j \in 1..(2 * n + 1) |->
                   IF (j % 2) = 1 THEN text((j - 1) \div 2) ELSE field(j \div 2)])

\* str.encode("utf-8") of one code point.
Utf8Char(c) ==
    IF c < 128 THEN <<c>>
    ELSE IF c < 2048 THEN <<192 + (c \div 64), 128 + (c % 64)>>
    ELSE IF c < 65536
         THEN <<224 + (c \div 4096), 128 + ((c \div 64) % 64), 128 + (c % 64)>>
         ELSE <<240 + (c \div 262144), 128 + ((c \div 4096) % 64),
                128 + ((c \div 64) % 64), 128 + (c % 64)>>

\* str.encode("utf-8") (line 142).
Utf8Encode(s) == Concat([i \in 1..Len(s) |-> Utf8Char(s[i])])

B64Alphabet == Codes("ABCDEFGHIJKLMNOPQRSTUVWXYZabcdefghijklmnopqrstuvwxyz0123456789+/")

\* base64.b64encode(data).decode("ascii") (line 143): each group of three bytes gives
\* four characters; a last group of one or two bytes is padded with "=".
B64Encode(data) ==
    LET n == Len(data)
        byte(k) == IF k <= n THEN data[k] ELSE 0
    IN  [i \in 1..(4 * ((n + 2) \div 3)) |->
            LET g == (i - 1) \div 4
                k == (i - 1) % 4
                b0 == byte(3 * g + 1)
                b1 == byte(3 * g + 2)
                b2 == byte(3 * g + 3)
            IN  IF k = 0 THEN B64Alphabet[(b0 \div 4) + 1]
                ELSE IF k = 1 THEN B64Alphabet[((b0 % 4) * 16) + (b1 \div 16) + 1]
                ELSE IF k = 2
                     THEN (IF 3 * g + 2 > n THEN 61
                           ELSE B64Alphabet[((b1 % 16) * 4) + (b2 \div 64) + 1])
                     ELSE (IF 3 * g + 3 > n THEN 61 ELSE B64Alphabet[(b2 % 64) + 1])]

\* abs(x).
Abs(x) == IF x < 0 THEN 0 - x ELSE x


(***************************************************************************)
(* Module-level data of src/main.py                                        *)
(***************************************************************************)
SAMPLE_PROMPT ==
    Codes("Describe the future of AI in space exploration, with stunning visuals of advanced spacecraft.")

SAMPLE_TEXT ==
    Codes("AI in space exploration is poised to revolutionize humanity's understanding and presence beyond Earth. ")
    \o Codes("Imagine autonomous probes that can identify and analyze exoplanets with unprecedented speed, making real-time ")
    \o Codes("decisions about sample collection and data transmission. Swarms of AI-powered nanobots could construct ")
    \o Codes("self-repairing habitats on Mars or the Moon, using local resources with minimal human intervention.\n\n")
    \o Codes("Further into the future, AI will be central to managing vast interstellar voyages. It will handle complex navigation, ")
    \o Codes("life support systems, and scientific data processing, freeing human astronauts to focus on discovery. AI companions ")
    \o Codes("will provide psychological support and act as expert assistants, capable of diagnosing system failures or identifying ")
    \o Codes("new biological lifeforms. From optimizing fuel efficiency for deep-space missions to enabling communication across ")
    \o Codes("light-years, AI is not just a tool; it's becoming an indispensable partner in our cosmic journey, pushing the ")
    \o Codes("boundaries of what's possible.")

\* One element per line of the template; the literal starts and ends with a newline.
\* <<183>> is the middle dot of the title line.
SVG_TEMPLATE ==
    Join(<<10>>, <<
      <<>>,
      Codes("<svg xmlns='http://www.w3.org/2000/svg' width='{w}' height='{h}' viewBox='0 0 {w} {h}'>"),
      Codes("  <defs>"),
      Codes("    <linearGradient id='g' x1='0' y1='0' x2='1' y2='1'>"),
      Codes("      <stop offset='0%' stop-color='{c1}' />"),
      Codes("      <stop offset='100%' stop-color='{c2}' />"),
      Codes("    </linearGradient>"),
      Codes("    <filter id='glow' x='-50%' y='-50%' width='200%' height='200%'>"),
      Codes("      <feGaussianBlur stdDeviation='8' result='blur'/>"),
      Codes("      <feMerge><feMergeNode in='blur'/><feMergeNode in='SourceGraphic'/></feMerge>"),
      Codes("    </filter>"),
      Codes("  </defs>"),
      Codes("  <rect width='100%' height='100%' fill='black' />"),
      Codes("  <circle cx='{cx}' cy='{cy}' r='{r}' fill='url(#g)' filter='url(#glow)' opacity='0.9'/>"),
      Codes("  <g fill='none' stroke='white' stroke-opacity='0.7'>"),
      Codes("    <path d='M 0 {cy} C {w4} {cy2} {w2} {cy3} {w} {cy}' stroke='url(#g)' stroke-width='2'/>"),
      Codes("    <path d='M {w2} 0 C {w3} {h4} {w4} {h3} {w2} {h}' stroke='url(#g)' stroke-width='1.5' stroke-dasharray='6 6'/>"),
      Codes("  </g>"),
      Codes("  <text x='{pad}' y='{pad2}' font-size='20' fill='white' font-family='Inter, system-ui, -apple-system, Segoe UI, Roboto'>AI Power ")
          \o <<183>> \o Codes(" {title}</text>"),
      Codes("  <text x='{pad}' y='{pad3}' font-size='12' fill='#cbd5e1' font-family='Inter, system-ui, -apple-system, Segoe UI, Roboto'>\"{subtitle}\"</text>"),
      Codes("</svg>"),
      <<>> >>)

COLORS ==
    << <<Codes("#60a5fa"), Codes("#a78bfa")>>,
       <<Codes("#22d3ee"), Codes("#818cf8")>>,
       <<Codes("#34d399"), Codes("#06b6d4")>>,
       <<Codes("#f472b6"), Codes("#60a5fa")>> >>

\* The default arguments of svg_for_prompt.
DefaultW == 1200
DefaultH == 675

\* The subtitle keeps this many characters of the prompt.
SubtitleLimit == 90

\* <<8230>> is the horizontal ellipsis.
Ellipsis == <<8230>>

\* The status code and the detail of the HTTPException the handlers raise.
BadRequest == 400
PromptRequired == "Prompt is required"

\* The successful status of a handler that returns.
StatusOK == 200

\* The width the sections are wrapped to, the word target of the elaboration loop and
\* the duration the script handler reports.
WrapWidth == 100
TargetWords == 1200
EstimatedMinutes == 10


(***************************************************************************)
(* State                                                                   *)
(***************************************************************************)
VARIABLES
    hashseed,   \* the key of this process's str hash (drawn when the interpreter starts)
    reqs        \* the requests received so far, in order of arrival, with each one's
                \* position in its handler, its handler's locals and its response

vars == <<hashseed, reqs>>

(***************************************************************************)
(* Bounds of the model                                                     *)
(***************************************************************************)
\* Requests received in one behaviour of the service.
MaxRequests == 2
\* Hash keys an interpreter may draw: 0..MaxSeed.
MaxSeed == 1

Seeds == 0..MaxSeed

Ops == {"text", "image", "script"}

\* Prompts of exactly 90 and 91 characters.
P90 == Codes("Render a lunar base at dawn: solar arrays, two rovers, and six astronauts waving at Earth!")
P91 == P90 \o Codes("?")

Cores ==
    { <<>>,
      Codes("a b"),
      <<77, 233, 8230>>,
      SAMPLE_PROMPT,
      Codes("DESCRIBE THE FUTURE OF AI IN SPACE EXPLORATION, WITH STUNNING VISUALS OF ADVANCED SPACECRAFT."),
      SubSeq(SAMPLE_PROMPT, 1, Len(SAMPLE_PROMPT) - 1),
      P90,
      P91 }

LeftPads == { <<>>, <<32>>, <<9, 160>> }
RightPads == { <<>>, <<32>>, <<13, 10>> }

\* The raw prompts of the single-request specifications.
Prompts == { l \o c \o r : l \in LeftPads, c \in Cores, r \in RightPads }

\* The raw prompts of the stepwise script handler.
ServicePrompts ==
    { <<>>, Codes(" a b") \o <<10>>, Codes("a b"), SAMPLE_PROMPT, <<9>> \o P91 }

\* The requests (operation, raw prompt) clients send to the service.
ServiceRequests ==
    { <<"text", <<32, 10>>>>,
      <<"text", Codes("a b")>>,
      <<"image", Codes(" a b") \o <<10>>>>,
      <<"image", Codes("a b")>>,
      <<"script", Codes("a b")>> }

(***************************************************************************)
(* hash(prompt)                                                            *)
(***************************************************************************)
\* The built-in hash of a str is keyed by a per-process random key (hash randomization,
\* on by default), so the same string hashes differently in different interpreter
\* processes and equally within one.  The keyed function is modelled as a sum of the
\* characters weighted by key and position (HashSum adds the terms of s[lo..hi], by
\* halves); the value is kept 16 bits wide and read as signed, and, as in CPython, is
\* never -1.  Only abs(hash) % 4 is read by the program.
RECURSIVE HashSum(_, _, _, _)
HashSum(key, s, lo, hi) ==
    IF lo > hi THEN 0
    ELSE IF lo = hi THEN ((s[lo] + key + 1) * (key + (2 * lo) + 1)) % 65536
    ELSE LET mid == (lo + hi) \div 2
         IN  (HashSum(key, s, lo, mid) + HashSum(key, s, mid + 1, hi)) % 65536

StrHash(key, s) ==
    LET u == ((key * 40503) + HashSum(key, s, 1, Len(s))) % 65536
        v == IF u >= 32768 THEN u - 65536 ELSE u
    IN  IF v = 0 - 1 THEN 0 - 2 ELSE v

\* hash(prompt) in the running process.
Hash(s) == StrHash(hashseed, s)

(***************************************************************************)
(* generate_text                                                           *)
(***************************************************************************)
\* raise HTTPException(status_code=400, detail="Prompt is required")
HTTPException(code, detail) == [status |-> code, detail |-> detail]

\* `not prompt` (lines 69, 139, 150): the string is empty.
IsEmpty(prompt) == prompt = <<>>

\* The constant lines of the f-string `body` (lines 78-85); <<8209>> is the non-breaking
\* hyphen, <<8594>> the rightwards arrow, <<8212>> the em dash.
TextBodyRest ==
    Codes("1) Foundation: Modern AI systems coordinate sensing, planning, and action across a network of agents.\n")
    \o Codes("2) Experience: Natural, multimodal interaction translates ideas into high") \o <<8209>> \o Codes("fidelity media and simulations.\n")
    \o Codes("3) Reliability: Safety, monitoring, and self") \o <<8209>> \o Codes("healing keep complex missions resilient.\n\n")
    \o Codes("Zooming in, expect rapid iteration cycles: models reason over live data, generate options, then test them in fast,\n")
    \o Codes("physics") \o <<8209>> \o Codes("aware sandboxes. The result is a virtuous loop of design ") \o <<8594>> \o Codes(" simulation ") \o <<8594>> \o Codes(" deployment, guided by human intent\n")
    \o Codes("and transparent constraints.\n\n")
    \o Codes("In practice, this means better decisions, richer creativity, and systems that collaborate with us") \o <<8212>> \o Codes("augmenting human\n")
    \o Codes("judgment rather than replacing it.")

\* A plausible slip: interpolating the lower-cased prompt.
TextBody_Lowered(prompt) ==
    Codes("Here's a concise vision for '") \o Lower(prompt) \o Codes("':\n\n") \o TextBodyRest

\* The f-string `body` (lines 76-86): the prompt interpolated into the first line.
TextBody(prompt) ==
    Codes("Here's a concise vision for '") \o prompt \o Codes("':\n\n") \o TextBodyRest

\* prompt.lower() == SAMPLE_PROMPT.lower() (lines 72, 153).
IsSamplePrompt(prompt) == Lower(prompt) = Lower(SAMPLE_PROMPT)

\* The handler of POST /api/generate/text, from the raw prompt to the response.
generate_text(raw) ==
    LET prompt == Strip(raw)
    IN  IF IsEmpty(prompt) THEN HTTPException(BadRequest, PromptRequired)
        ELSE IF IsSamplePrompt(prompt)
             THEN [status |-> StatusOK, prompt |-> prompt, text |-> SAMPLE_TEXT]
             ELSE [status |-> StatusOK, prompt |-> prompt, text |-> TextBody(prompt)]

(***************************************************************************)
(* svg_for_prompt, generate_image                                          *)
(***************************************************************************)
\* A plausible slip: `>=` for `>` in the test that appends the ellipsis.
Subtitle_OffByOne(prompt) ==
    SubSeq(prompt, 1, Min({SubtitleLimit, Len(prompt)}))
    \o (IF Len(prompt) >= SubtitleLimit THEN Ellipsis ELSE <<>>)

\* prompt[:90] + ("..." if len(prompt) > 90 else "") (line 132).
Subtitle(prompt) ==
    SubSeq(prompt, 1, Min({SubtitleLimit, Len(prompt)}))
    \o (IF Len(prompt) > SubtitleLimit THEN Ellipsis ELSE <<>>)

\* A plausible slip: a palette that rotates with the number of requests served.
PaletteIndex_Rotating(prompt) ==
    (Abs(Hash(prompt)) + Cardinality({i \in 1..Len(reqs) : reqs[i].pc = "done"}))
        % Len(COLORS)

\* idx = abs(hash(prompt)) % len(COLORS) (line 121), here 0-based as in the source.
PaletteIndex(prompt) == Abs(Hash(prompt)) % Len(COLORS)

Arg(name, value) == [name |-> Codes(name), value |-> value]

\* svg_for_prompt(prompt, w, h) (lines 120-134).  The float arguments are given in
\* hundredths: w*0.7 is 70*w hundredths, w/2 is 50*w hundredths.
svg_for_prompt(prompt, w, h) ==
    LET idx == PaletteIndex(prompt)
        c1 == COLORS[idx + 1][1]
        c2 == COLORS[idx + 1][2]
    IN  Format(SVG_TEMPLATE,
               { Arg("w", Str(w)), Arg("h", Str(h)),
                 Arg("c1", c1), Arg("c2", c2),
                 Arg("cx", FloatStr(w * 70)), Arg("cy", FloatStr(h * 40)),
                 Arg("r", FloatStr(Min({w, h}) * 25)),
                 Arg("w2", FloatStr(w * 50)), Arg("w3", FloatStr(w * 75)),
                 Arg("w4", FloatStr(w * 25)),
                 Arg("cy2", FloatStr(h * 20)), Arg("cy3", FloatStr(h * 80)),
                 Arg("h2", FloatStr(h * 50)), Arg("h3", FloatStr(h * 75)),
                 Arg("h4", FloatStr(h * 25)),
                 Arg("pad", Str(32)), Arg("pad2", Str(48)), Arg("pad3", Str(72)),
                 Arg("title", Codes("Futuristic Visual")),
                 Arg("subtitle", Subtitle(prompt)) })

DataUrlPrefix == Codes("data:image/svg+xml;base64,")
SvgMime == Codes("image/svg+xml")

\* The handler of POST /api/generate/image.
generate_image(raw) ==
    LET prompt == Strip(raw)
    IN  IF IsEmpty(prompt) THEN HTTPException(BadRequest, PromptRequired)
        ELSE LET svg == svg_for_prompt(prompt, DefaultW, DefaultH)
                 data == Utf8Encode(svg)
                 b64 == B64Encode(data)
                 data_url == DataUrlPrefix \o b64
             IN  [status |-> StatusOK, prompt |-> prompt, data_url |-> data_url,
                  format |-> SvgMime]


(***************************************************************************)
(* generate_podcast_script                                                 *)
(***************************************************************************)
\* The opening for the sample prompt (lines 154-157); <<8212>> is the em dash.
SampleBase ==
    Codes("Welcome to AI Power. In today's episode, we explore the future of AI in space exploration") \o <<8212>> \o Codes("how intelligent systems ")
    \o Codes("will expand our reach and resilience beyond Earth. ")

\* `base` (lines 153-159).
Base(prompt) ==
    IF IsSamplePrompt(prompt) THEN SampleBase
    ELSE Codes("Welcome to AI Power. Today's episode explores: ") \o prompt \o Codes(". ")

sections ==
    << Codes("Origins: how autonomy moved from labs to deep space."),
       Codes("Sensing: fusing multi-spectral data, onboard learning, and anomaly detection."),
       Codes("Planning: model-predictive control, uncertainty, and responsible decision-making."),
       Codes("Construction: self-assembling infrastructure and in-situ resource utilization."),
       Codes("Health: predictive maintenance and closed-loop life-support."),
       Codes("Human factors: copilots for cognition, creativity, and care during long missions."),
       Codes("Interstellar scale: coordination under extreme latency and sparse information."),
       Codes("Ethics and governance: verifiability, transparency, and alignment."),
       Codes("Frontiers: biological discovery, terraforming aids, and cosmic archaeology."),
       Codes("Closing: a vision of collaborative intelligence among stars.") >>

\* paragraphs = [textwrap.fill(s, width=100) for s in sections] (line 174).
paragraphs == [i \in 1..Len(sections) |-> Fill(sections[i], WrapWidth)]

ParagraphBreak == <<10, 10>>

\* A plausible slip: joining the paragraphs with single newlines.
ScriptHead_SingleNewline(prompt) ==
    Base(prompt) \o ParagraphBreak \o Join(<<10>>, paragraphs)

\* script = base + "\n\n" + "\n\n".join(paragraphs) (line 175).
ScriptHead(prompt) ==
    Base(prompt) \o ParagraphBreak \o Join(ParagraphBreak, paragraphs)

elaboration ==
    Codes("Imagine the choreography: swarms negotiate roles, exchange compressed world models, and rehearse actions in fast ")
    \o Codes("simulations before a single thruster fires. Each success feeds a continuously improving library of tactics, ")
    \o Codes("grounded by telemetry and human feedback.")

\* A plausible slip: the length of the joined string for its number of words.
LoopCond_Chars(blocks) == Len(Join(<<32>>, blocks)) < TargetWords

\* The test of the while loop: len(" ".join(expanded_blocks).split()) < 1200 (line 185).
LoopCond(blocks) == WordCount(Join(<<32>>, blocks)) < TargetWords

\* The body of the while loop: expanded_blocks.append(elaboration) (line 186).
LoopBody(blocks) == Append(blocks, elaboration)

\* The while loop run from `blocks` to its exit.
RECURSIVE ExpandLoop(_)
ExpandLoop(blocks) ==
    IF LoopCond(blocks) THEN ExpandLoop(LoopBody(blocks)) ELSE blocks

\* expanded_blocks when the loop started from [] exits (lines 184-186): the loop reads
\* nothing of the request.
expanded_blocks == ExpandLoop(<<>>)

\* A plausible slip: the duration computed from the final length at 130 words a minute,
\* rounded up.
ScriptResponse_Computed(prompt, script, blocks) ==
    LET full == script \o ParagraphBreak \o Join(ParagraphBreak, blocks)
    IN  [status |-> StatusOK, prompt |-> prompt, script |-> full,
         estimated_minutes |-> (WordCount(full) + 129) \div 130]

\* script = script + "\n\n" + "\n\n".join(expanded_blocks) (line 187) and the response
\* (line 189).
ScriptResponse(prompt, script, blocks) ==
    [status |-> StatusOK, prompt |-> prompt,
     script |-> script \o ParagraphBreak \o Join(ParagraphBreak, blocks),
     estimated_minutes |-> EstimatedMinutes]

\* The handler of POST /api/generate/script.
generate_podcast_script(raw) ==
    LET prompt == Strip(raw)
    IN  IF IsEmpty(prompt) THEN HTTPException(BadRequest, PromptRequired)
        ELSE ScriptResponse(prompt, ScriptHead(prompt), expanded_blocks)

(***************************************************************************)
(* The service: requests arrive, each is handled by its handler            *)
(***************************************************************************)
NoResponse == [status |-> 0]

\* A request just received: nothing of its handler has run.
NewRequest(op, raw) ==
    [op |-> op, raw |-> raw, pc |-> "received",
     prompt |-> <<>>, script |-> <<>>, expanded_blocks |-> <<>>,
     resp |-> NoResponse]

Init ==
    /\ hashseed \in Seeds
    /\ reqs = <<>>

\* A client posts {prompt: raw} to the endpoint of `op`.
Receive(op, raw) ==
    /\ reqs' = Append(reqs, NewRequest(op, raw))
    /\ UNCHANGED hashseed

Respond(i, resp) ==
    /\ reqs' = [reqs EXCEPT ![i].pc = "done", ![i].resp = resp]
    /\ UNCHANGED hashseed

\* generate_text runs for request i.
GenerateText(i) ==
    /\ reqs[i].op = "text" /\ reqs[i].pc = "received"
    /\ Respond(i, generate_text(reqs[i].raw))

\* generate_image runs for request i.
GenerateImage(i) ==
    /\ reqs[i].op = "image" /\ reqs[i].pc = "received"
    /\ Respond(i, generate_image(reqs[i].raw))

\* generate_podcast_script runs for request i.
GenerateScript(i) ==
    /\ reqs[i].op = "script" /\ reqs[i].pc = "received"
    /\ Respond(i, generate_podcast_script(reqs[i].raw))

\* generate_podcast_script, statement by statement: lines 149-175 and 184.
ScriptBegin(i) ==
    /\ reqs[i].op = "script" /\ reqs[i].pc = "received"
    /\ \/ /\ IsEmpty(Strip(reqs[i].raw))
          /\ reqs' = [reqs EXCEPT ![i].pc = "done",
                                  ![i].resp = HTTPException(BadRequest, PromptRequired)]
       \/ /\ ~IsEmpty(Strip(reqs[i].raw))
          /\ reqs' = [reqs EXCEPT ![i].pc = "expanding",
                                  ![i].prompt = Strip(reqs[i].raw),
                                  ![i].script = ScriptHead(Strip(reqs[i].raw)),
                                  ![i].expanded_blocks = <<>>]
    /\ UNCHANGED hashseed

\* One iteration of the while loop (lines 185-186).
ScriptExpand(i) ==
    /\ reqs[i].pc = "expanding"
    /\ LoopCond(reqs[i].expanded_blocks)
    /\ reqs' = [reqs EXCEPT ![i].expanded_blocks = LoopBody(reqs[i].expanded_blocks)]
    /\ UNCHANGED hashseed

\* The loop exits: lines 187-189.
ScriptReturn(i) ==
    /\ reqs[i].pc = "expanding"
    /\ ~LoopCond(reqs[i].expanded_blocks)
    /\ Respond(i, ScriptResponse(reqs[i].prompt, reqs[i].script, reqs[i].expanded_blocks))

\* The interpreter process ends and a new one starts: a new hash key is drawn, and the
\* requests the old process had not answered are lost.
Restart ==
    /\ hashseed' \in Seeds
    /\ reqs' = [i \in 1..Len(reqs) |->
                   IF reqs[i].pc = "done" THEN reqs[i] ELSE [reqs[i] EXCEPT !.pc = "lost"]]

\* The service: up to MaxRequests requests are received, and each is handled whole, in
\* any order and at any time after its arrival.
Next ==
    \/ \E rq \in ServiceRequests :
          Len(reqs) < MaxRequests /\ Receive(rq[1], rq[2])
    \/ \E i \in 1..Len(reqs) : GenerateText(i)
    \/ \E i \in 1..Len(reqs) : GenerateImage(i)
    \/ \E i \in 1..Len(reqs) : GenerateScript(i)

Spec == Init /\ [][Next]_vars

\* The service across interpreter restarts.
NextRuns ==
    \/ Next
    \/ Restart

SpecRuns == Init /\ [][NextRuns]_vars

\* One request of any operation, with any of the prompts: the handlers as functions.
NextOne ==
    \/ \E op \in Ops, raw \in Prompts : reqs = <<>> /\ Receive(op, raw)
    \/ \E i \in 1..Len(reqs) : GenerateText(i)
    \/ \E i \in 1..Len(reqs) : GenerateImage(i)
    \/ \E i \in 1..Len(reqs) : GenerateScript(i)

SpecOne == Init /\ [][NextOne]_vars

\* One script request, its handler run statement by statement.  The interpreter runs a
\* handler it has started on: an iteration that is due is taken, and so is the return.
NextLoop ==
    \/ \E raw \in ServicePrompts : reqs = <<>> /\ Receive("script", raw)
    \/ \E i \in 1..Len(reqs) : ScriptBegin(i)
    \/ \E i \in 1..Len(reqs) : ScriptExpand(i)
    \/ \E i \in 1..Len(reqs) : ScriptReturn(i)

SpecLoop ==
    /\ Init /\ [][NextLoop]_vars
    /\ WF_vars(\E i \in 1..Len(reqs) : ScriptExpand(i))
    /\ WF_vars(\E i \in 1..Len(reqs) : ScriptReturn(i))


(***************************************************************************)
(* Vocabulary of the properties                                            *)
(***************************************************************************)
RECURSIVE DropLeading(_)
DropLeading(s) == IF s # <<>> /\ IsSpace(Head(s)) THEN DropLeading(Tail(s)) ELSE s

RECURSIVE DropTrailing(_)
DropTrailing(s) ==
    IF s # <<>> /\ IsSpace(s[Len(s)]) THEN DropTrailing(SubSeq(s, 1, Len(s) - 1)) ELSE s

\* The trimmed form of a raw prompt.
Trimmed(s) == DropTrailing(DropLeading(s))

IsLetter(c) == c \in (65..90) \cup (97..122)

\* Equality of two strings up to the case of their letters.
EqualIgnoringCase(a, b) ==
    /\ Len(a) = Len(b)
    /\ \A i \in 1..Len(a) :
          \/ a[i] = b[i]
          \/ IsLetter(a[i]) /\ IsLetter(b[i]) /\ Abs(a[i] - b[i]) = 32

MatchesReference(raw) == EqualIgnoringCase(Trimmed(raw), SAMPLE_PROMPT)

\* What the endpoint of `op` answers to `raw`.
Handler(op, raw) ==
    IF op = "text" THEN generate_text(raw)
    ELSE IF op = "image" THEN generate_image(raw)
    ELSE generate_podcast_script(raw)

ResultField(op) ==
    IF op = "text" THEN "text" ELSE IF op = "image" THEN "data_url" ELSE "script"

Answered == {i \in 1..Len(reqs) : reqs[i].pc = "done"}

\* The answered requests whose trimmed prompt is not empty.
Valid == {i \in Answered : Trimmed(reqs[i].raw) # <<>>}

StartsWith(s, pre) == Len(s) >= Len(pre) /\ SubSeq(s, 1, Len(pre)) = pre

EndsWith(s, suf) ==
    Len(s) >= Len(suf) /\ SubSeq(s, Len(s) - Len(suf) + 1, Len(s)) = suf

\* The positions of s at which pat occurs.
Occurrences(s, pat) ==
    {i \in 1..(Len(s) - Len(pat) + 1) :
        s[i] = pat[1] /\ SubSeq(s, i, i + Len(pat) - 1) = pat}

Contains(s, pat) == Occurrences(s, pat) # {}

\* The value of each base64 character.
B64Index == [c \in 0..127 |->
                IF \E k \in 1..64 : B64Alphabet[k] = c
                THEN (CHOOSE k \in 1..64 : B64Alphabet[k] = c) - 1
                ELSE 0]

\* The bytes a padded base64 text stands for.
B64Decode(text) ==
    LET n == Len(text)
        pad == Cardinality({i \in 1..n : text[i] = 61})
        six(k) == B64Index[text[k]]
    IN  [j \in 1..(3 * (n \div 4) - pad) |->
            LET g == (j - 1) \div 3
                k == (j - 1) % 3
                s0 == six(4 * g + 1)
                s1 == six(4 * g + 2)
                s2 == six(4 * g + 3)
                s3 == six(4 * g + 4)
            IN  IF k = 0 THEN (s0 * 4) + (s1 \div 16)
                ELSE IF k = 1 THEN ((s1 % 16) * 16) + (s2 \div 4)
                ELSE ((s2 % 4) * 64) + s3]

\* The pieces of s between its paragraph breaks (two consecutive newlines), in order.
Paragraphs(s) ==
    LET breaks == {i \in 1..(Len(s) - 1) : s[i] = 10 /\ s[i + 1] = 10}
        n == Cardinality(breaks)
        start(k) == IF k = 1 THEN 1
                    ELSE 2 + (CHOOSE b \in breaks : Cardinality({c \in breaks : c < b}) = k - 2)
        stop(k) == IF k = n + 1 THEN Len(s)
                   ELSE (CHOOSE b \in breaks : Cardinality({c \in breaks : c < b}) = k - 1) - 1
    IN  [k \in 1..(n + 1) |-> SubSeq(s, start(k), stop(k))]

\* The part of a script from its first elaboration paragraph on.
ElaborationRegion(script) ==
    LET at == Occurrences(script, elaboration)
    IN  IF at = {} THEN <<>> ELSE SubSeq(script, Min(at), Len(script))


(***************************************************************************)
(* Properties                                                              *)
(***************************************************************************)
\* C1: for each of the three operations, a request whose prompt is empty or only
\* whitespace is rejected with status 400 and the detail "Prompt is required", and its
\* response carries no result; a request whose trimmed prompt is not empty is never
\* rejected so, and carries its operation's result.
C1_RejectsBlankPrompts ==
    \A i \in Answered :
        LET r == reqs[i]
        IN  IF Trimmed(r.raw) = <<>>
            THEN /\ r.resp.status = 400
                 /\ DOMAIN r.resp = {"status", "detail"}
                 /\ r.resp.detail = "Prompt is required"
            ELSE /\ r.resp.status # 400
                 /\ "detail" \notin DOMAIN r.resp
                 /\ ResultField(r.op) \in DOMAIN r.resp

\* A prompt of whitespace only, not empty, has been rejected.
C1_Witness ==
    \E i \in Answered :
        /\ reqs[i].raw # <<>>
        /\ Trimmed(reqs[i].raw) = <<>>
        /\ reqs[i].resp.status = 400

\* C2: for every prompt whose trimmed form is not empty and each operation, the whole
\* response (the echoed prompt and the generated text, data_url or script) is the
\* response to the trimmed form of the prompt.
C2_WhitespaceInsensitive ==
    \A i \in Valid :
        /\ reqs[i].resp = Handler(reqs[i].op, Trimmed(reqs[i].raw))
        /\ reqs[i].resp.prompt = Trimmed(reqs[i].raw)

\* An image has been generated for a prompt of 90 characters sent with surrounding
\* whitespace.
C2_Witness ==
    \E i \in Valid :
        /\ reqs[i].op = "image"
        /\ Len(Trimmed(reqs[i].raw)) = 90
        /\ Len(reqs[i].raw) > 91
        /\ IsSpace(Head(reqs[i].raw))

\* C3: generate-text returns the reference essay exactly when the trimmed prompt equals
\* the reference prompt up to case; every other non-empty prompt gets the templated
\* essay, never the reference essay.
C3_ReferenceEssay ==
    \A i \in Valid :
        reqs[i].op = "text" =>
            /\ (reqs[i].resp.text = SAMPLE_TEXT) <=> MatchesReference(reqs[i].raw)
            /\ ~MatchesReference(reqs[i].raw) =>
                  StartsWith(reqs[i].resp.text, Codes("Here's a concise vision for '"))

\* The all-uppercase variant of the reference prompt has been answered with the essay.
C3_Witness ==
    \E i \in Valid :
        /\ reqs[i].op = "text"
        /\ Trimmed(reqs[i].raw) # SAMPLE_PROMPT
        /\ \A k \in 1..Len(reqs[i].raw) : reqs[i].raw[k] \notin 97..122
        /\ reqs[i].resp.text = SAMPLE_TEXT

\* C4: the palette chosen for a prompt is the same in every call of every process: two
\* answered image requests with the same prompt carry the same data_url, whichever
\* interpreter process answered them.
C4_PaletteStableAcrossRuns ==
    \A i, j \in Answered :
        (reqs[i].op = "image" /\ reqs[j].op = "image" /\ reqs[i].raw = reqs[j].raw)
            => reqs[i].resp = reqs[j].resp

SubtitleOpen == Utf8Encode(Codes("Roboto'>\""))
SubtitleClose == Utf8Encode(Codes("\"</text>\n</svg>\n"))

\* The subtitle of a decoded document: what stands between the opening quote of the
\* second text element and the closing quote before the end of the document.
SubtitleOf(doc) ==
    LET at == Occurrences(doc, SubtitleOpen)
    IN  SubSeq(doc, Min(at) + Len(SubtitleOpen), Len(doc) - Len(SubtitleClose))

\* C6: for every non-empty trimmed prompt p, generate-image returns the format
\* "image/svg+xml" and a data_url "data:image/svg+xml;base64," + payload, whose payload
\* decodes to a document with width='1200' and height='675' and the subtitle p when p
\* has at most 90 characters, and else the first 90 characters of p and one ellipsis.
C6_ImageDocument ==
    \A i \in Valid :
        reqs[i].op = "image" =>
            LET p == Trimmed(reqs[i].raw)
                url == reqs[i].resp.data_url
                pre == Codes("data:image/svg+xml;base64,")
                doc == B64Decode(SubSeq(url, Len(pre) + 1, Len(url)))
            IN  /\ reqs[i].resp.format = Codes("image/svg+xml")
                /\ StartsWith(url, pre)
                /\ Contains(doc, Utf8Encode(Codes("width='1200'")))
                /\ Contains(doc, Utf8Encode(Codes("height='675'")))
                /\ Occurrences(doc, SubtitleOpen) # {}
                /\ EndsWith(doc, SubtitleClose)
                /\ SubtitleOf(doc) =
                      Utf8Encode(IF Len(p) <= 90 THEN p
                                 ELSE SubSeq(p, 1, 90) \o <<8230>>)

\* An image has been generated for a prompt of exactly 90 characters.
C6_Witness ==
    \E i \in Valid :
        /\ reqs[i].op = "image"
        /\ Len(Trimmed(reqs[i].raw)) = 90
        /\ reqs[i].resp.status = 200

\* C7: for every non-empty trimmed prompt, generate-script returns estimated_minutes 10
\* and a script whose elaboration region has at least 1200 words.
C7_ScriptLength ==
    \A i \in Valid :
        reqs[i].op = "script" =>
            /\ reqs[i].resp.estimated_minutes = 10
            /\ WordCount(ElaborationRegion(reqs[i].resp.script)) >= 1200

\* A script has been returned whose elaboration
\* region exceeds the target and whose prompt is longer than 90 characters.
C7_Witness ==
    \E i \in Valid :
        /\ reqs[i].op = "script"
        /\ Len(Trimmed(reqs[i].raw)) > 90
        /\ WordCount(ElaborationRegion(reqs[i].resp.script)) > 1200


\* The number of words of the joined blocks, as the loop counts them.
Count(blocks) == WordCount(Join(<<32>>, blocks))

ParagraphWords == WordCount(elaboration)

AllButLast(blocks) == SubSeq(blocks, 1, Len(blocks) - 1)

\* The number of copies after which the count first reaches the target.
CopiesNeeded == (1200 + ParagraphWords - 1) \div ParagraphWords

\* While the loop runs, its list holds copies of the elaboration paragraph only, never
\* more than needed, and an iteration that is still due adds the words of one paragraph
\* to the count (so the distance to the target shrinks every time round).  When the
\* handler has returned, the list reached the target with its last copy, by less than one
\* paragraph, in a number of copies that no prompt changes, and the script ends with it.
C8_LoopInvariant ==
    \A i \in 1..Len(reqs) :
        LET r == reqs[i]
            b == r.expanded_blocks
        IN  /\ r.pc = "expanding" =>
                  /\ \A k \in 1..Len(b) : b[k] = elaboration
                  /\ Count(b) = Len(b) * ParagraphWords
                  /\ Len(b) <= CopiesNeeded
                  /\ b # <<>> => Count(AllButLast(b)) < 1200
                  /\ LoopCond(b) =>
                        /\ ParagraphWords > 0
                        /\ Count(LoopBody(b)) = Count(b) + ParagraphWords
            /\ (r.pc = "done" /\ r.resp.status = 200) =>
                  /\ Count(b) >= 1200
                  /\ Count(b) < 1200 + ParagraphWords
                  /\ Count(AllButLast(b)) < 1200
                  /\ Len(b) = CopiesNeeded
                  /\ ElaborationRegion(r.resp.script) = Join(<<10, 10>>, b)
                  /\ r.resp = generate_podcast_script(r.raw)

\* Every iteration appends one copy of the paragraph and adds its words to the count;
\* the handler leaves the loop only when the count has reached the target.
C8_LoopStep ==
    \A i \in 1..Len(reqs) :
        /\ (reqs[i].pc = "expanding" /\ reqs'[i].pc = "expanding" /\ reqs'[i] # reqs[i]) =>
              /\ reqs'[i].expanded_blocks = Append(reqs[i].expanded_blocks, elaboration)
              /\ Count(reqs'[i].expanded_blocks)
                    = Count(reqs[i].expanded_blocks) + ParagraphWords
        /\ (reqs[i].pc = "expanding" /\ reqs'[i].pc = "done") =>
              /\ reqs'[i].expanded_blocks = reqs[i].expanded_blocks
              /\ Count(reqs[i].expanded_blocks) >= 1200

LoopRunning == \E i \in 1..Len(reqs) : reqs[i].pc = "expanding"

LoopExited == reqs # <<>> /\ \A i \in 1..Len(reqs) : reqs[i].pc = "done"

\* C8: the elaboration loop terminates for every prompt (a handler that has entered the
\* loop returns; the count grows by the words of one paragraph on every iteration and the
\* loop runs no longer than the copies needed); it appends whole copies of the one
\* elaboration paragraph and stops at the first copy that brings the count to 1200 or
\* more, after the same number of copies for every prompt.
C8_ElaborationLoop ==
    /\ []C8_LoopInvariant
    /\ [][C8_LoopStep]_vars
    /\ LoopRunning ~> LoopExited

\* The loop has run and the handler has returned the script.
C8_Witness ==
    \E i \in Answered :
        /\ reqs[i].resp.status = 200
        /\ Len(reqs[i].expanded_blocks) > 1
        /\ reqs[i].resp.script # <<>>

\* C9: the script is one opening, then the 10 sections in their order (Origins first,
\* Closing last), then elaboration paragraphs, separated by paragraph breaks; the opening
\* is the reference opening exactly when the trimmed prompt matches the reference prompt
\* up to case, and else the templated opening holding the prompt; the sections and the
\* elaboration paragraphs are the same for every prompt.
C9_ScriptStructure ==
    \A i \in Valid :
        reqs[i].op = "script" =>
            LET parts == Paragraphs(reqs[i].resp.script)
                p == Trimmed(reqs[i].raw)
            IN  /\ Len(parts) > 11
                /\ (parts[1] = SampleBase) <=> MatchesReference(reqs[i].raw)
                /\ ~MatchesReference(reqs[i].raw) =>
                      parts[1] = Codes("Welcome to AI Power. Today's episode explores: ")
                                 \o p \o Codes(". ")
                /\ \A k \in 1..10 : parts[k + 1] = sections[k]
                /\ StartsWith(parts[2], Codes("Origins:"))
                /\ StartsWith(parts[11], Codes("Closing:"))
                /\ \A k \in 12..Len(parts) : parts[k] = elaboration

\* A script has been returned for a variant of the reference prompt in another case.
C9_Witness ==
    \E i \in Valid :
        /\ reqs[i].op = "script"
        /\ MatchesReference(reqs[i].raw)
        /\ Trimmed(reqs[i].raw) # SAMPLE_PROMPT
        /\ reqs[i].resp.status = 200

\* C10: for every non-empty trimmed prompt that does not match the reference prompt,
\* generate-text returns the template with the prompt, as it is, in the opening line
\* only; the numbered sections and the closing paragraphs are the same for all prompts.
C10_TextTemplate ==
    \A i \in Valid :
        (reqs[i].op = "text" /\ ~MatchesReference(reqs[i].raw)) =>
            reqs[i].resp.text =
                Codes("Here's a concise vision for '") \o Trimmed(reqs[i].raw)
                \o Codes("':\n\n") \o TextBodyRest

\* The template has been returned for a prompt with capitals, sent with whitespace
\* around it.
C10_Witness ==
    \E i \in Valid :
        /\ reqs[i].op = "text"
        /\ ~MatchesReference(reqs[i].raw)
        /\ reqs[i].raw # Trimmed(reqs[i].raw)
        /\ \E k \in 1..Len(reqs[i].raw) : reqs[i].raw[k] \in 65..90
        /\ reqs[i].resp.status = 200

====
